---- MODULE Spec2Model ----
(***************************************************************************)
(* A model of packages/neon-core/src/wallet/Balance.ts: the Balance class  *)
(* (addAsset, addToken, applyTx, confirm, export, verifyAssets) and the    *)
(* module functions verifyAssetBalance, verifyCoins, verifyCoin,           *)
(* exportAssets and exportTokens.                                          *)
(*                                                                         *)
(* A JS object with string keys is a sequence of [key, val] entries in     *)
(* insertion order (the order Object.keys reports).  A Fixed8 amount is    *)
(* [fixed8 |-> n], a JS number is [number |-> n].  A thrown exception is   *)
(* recorded in last.err together with the state the call left behind.      *)
(***************************************************************************)
EXTENDS Integers, Sequences, FiniteSets, TLC

\* Bound: the number of calls made on the Balance in one behaviour.
MaxOps == 3

\* Bound: the number of coins one verifyAssets call queries the node for.
MaxQueries == 2

VARIABLES
    address,        \* Balance.address
    net,            \* Balance.net
    assetSymbols,   \* Balance.assetSymbols
    assets,         \* Balance.assets, a JS object sym -> AssetBalance
    tokenSymbols,   \* Balance.tokenSymbols
    tokens,         \* Balance.tokens, a JS object sym -> Fixed8
    verify,         \* the verifyAssets call in flight (its promises), and as history the coins other calls placed in a list meanwhile
    last,           \* the last completed call: its arguments, the state before it, its outcome
    applied,        \* history: the <<hash, confirmed>> pairs applyTx was called with
    loaded,         \* history: the txids of coins loaded from addAsset snapshots
    spentRefs,      \* history: the identities of the coins held (unspent or unconfirmed) when applyTx processed an input naming them
    nops            \* history: the number of calls made so far

vars == <<address, net, assetSymbols, assets, tokenSymbols, tokens, verify,
          last, applied, loaded, spentRefs, nops>>

-----------------------------------------------------------------------------
(* JS values *)

\* The property key an undefined symbol is coerced to in this.assets[sym].
UndefinedSym == "undefined"

\* String.prototype.toUpperCase on the symbols used here.
toUpperCase(s) ==
    CASE s = "gas" -> "GAS"
      [] s = "neo" -> "NEO"
      [] s = "rpx" -> "RPX"
      [] OTHER -> s

\* A JS object as an insertion-ordered list of entries.
Keys(obj) == [i \in 1..Len(obj) |-> obj[i].key]

Has(obj, k) == \E i \in 1..Len(obj) : obj[i].key = k

Get(obj, k) == obj[CHOOSE i \in 1..Len(obj) : obj[i].key = k].val

\* obj[k] = v: an existing key keeps its position, a new key is appended.
Put(obj, k, v) ==
    IF Has(obj, k)
    THEN [i \in 1..Len(obj) |->
            IF obj[i].key = k THEN [key |-> k, val |-> v] ELSE obj[i]]
    ELSE Append(obj, [key |-> k, val |-> v])

\* The test of findIndex: el.txid === txid && el.index === index.
findFunc(el, txid, index) == el.txid = txid /\ el.index = index

\* arr.findIndex(findFunc), 1-based; 0 when no coin satisfies the test.
FindIndex(arr, txid, index) ==
    IF \E i \in 1..Len(arr) : findFunc(arr[i], txid, index)
    THEN CHOOSE i \in 1..Len(arr) :
            /\ findFunc(arr[i], txid, index)
            /\ \A j \in 1..(i - 1) : ~findFunc(arr[j], txid, index)
    ELSE 0

\* arr.splice(ind, 1): the array without its element at ind.
Splice(arr, ind) ==
    [i \in 1..(Len(arr) - 1) |-> IF i < ind THEN arr[i] ELSE arr[i + 1]]

-----------------------------------------------------------------------------
(* Fixed8, Coin and AssetBalance *)

\* new Fixed8(x) for x a number or a Fixed8.
NewFixed8(x) ==
    IF "number" \in DOMAIN x THEN [fixed8 |-> x.number] ELSE x

\* Fixed8.toNumber
toNumber(f) == [number |-> f.fixed8]

\* Fixed8.add
add(a, b) == [fixed8 |-> a.fixed8 + b.fixed8]

\* new Coin(coinLike)
NewCoin(c) == [index |-> c.index, txid |-> c.txid, value |-> NewFixed8(c.value)]

\* Coin.export
ExportCoin(c) == [index |-> c.index, txid |-> c.txid, value |-> toNumber(c.value)]

\* The identity of a coin.
CoinId(c) == <<c.txid, c.index>>

\* The number of coins of a list that carry the identity id.
Count(list, id) == Cardinality({x \in 1..Len(list) : CoinId(list[x]) = id})

RECURSIVE SumValues(_)
\* The sum of the values of a list of coins.
SumValues(coins) ==
    IF coins = <<>> THEN [fixed8 |-> 0]
    ELSE add(SumValues(SubSeq(coins, 1, Len(coins) - 1)), coins[Len(coins)].value)

\* Recompute with the recomputation left out: the balance stays as stored.
Recompute_Stale(ab) == ab

\* The balance of an AssetBalance is recomputed from unspent on every
\* mutation that touches unspent.
Recompute(ab) == [ab EXCEPT !.balance = SumValues(ab.unspent)]

\* One coin list of a partial snapshot: empty when the field is missing.
CoinList(abLike, field) ==
    IF field \in DOMAIN abLike
    THEN [i \in 1..Len(abLike[field]) |-> NewCoin(abLike[field][i])]
    ELSE <<>>

\* new AssetBalance(abLike): missing fields default to empty, the balance
\* is recomputed from unspent.
NewAssetBalance(abLike) ==
    Recompute([balance     |-> [fixed8 |-> 0],
               unspent     |-> CoinList(abLike, "unspent"),
               spent       |-> CoinList(abLike, "spent"),
               unconfirmed |-> CoinList(abLike, "unconfirmed")])

\* AssetBalance.export
ExportAssetBalance(ab) ==
    [balance     |-> toNumber(ab.balance),
     unspent     |-> [i \in 1..Len(ab.unspent) |-> ExportCoin(ab.unspent[i])],
     spent       |-> [i \in 1..Len(ab.spent) |-> ExportCoin(ab.spent[i])],
     unconfirmed |-> [i \in 1..Len(ab.unconfirmed) |-> ExportCoin(ab.unconfirmed[i])]]

\* The argument of addAsset(sym) called without a snapshot.
NoSnapshot == [f \in {} |-> <<>>]

-----------------------------------------------------------------------------
(* The static asset registry and the transactions applied *)

\* ASSETS[assetId]: the symbol of an asset id, undefined for an unknown id.
ASSETS(assetId) ==
    CASE assetId = "602c" -> "GAS"
      [] assetId = "c56f" -> "NEO"
      [] OTHER -> UndefinedSym

\* The transactions the caller may observe, by hash.  t1 creates GAS; t2
\* spends t1:0 and a coin of another wallet, and creates NEO and GAS; t4
\* spends t1:0 and has an output of an unregistered asset.
Hashes == {"t1", "t2", "t4"}

\* A transaction with an input that names its own first output; it also
\* spends t1:0, and creates GAS.
SelfHashes == {"t3"}

Tx(h) ==
    CASE h = "t1" ->
            [hash |-> "t1", inputs |-> <<>>,
             outputs |-> <<[assetId |-> "602c", value |-> [fixed8 |-> 10]]>>]
      [] h = "t2" ->
            [hash |-> "t2",
             inputs |-> <<[prevHash |-> "t1", prevIndex |-> 0],
                          [prevHash |-> "t0", prevIndex |-> 1]>>,
             outputs |-> <<[assetId |-> "c56f", value |-> [fixed8 |-> 5]],
                           [assetId |-> "602c", value |-> [fixed8 |-> 5]]>>]
      [] h = "t4" ->
            [hash |-> "t4",
             inputs |-> <<[prevHash |-> "t1", prevIndex |-> 0]>>,
             outputs |-> <<[assetId |-> "602c", value |-> [fixed8 |-> 5]],
                           [assetId |-> "ffff", value |-> [fixed8 |-> 5]]>>]
      [] h = "t3" ->
            [hash |-> "t3",
             inputs |-> <<[prevHash |-> "t3", prevIndex |-> 0],
                          [prevHash |-> "t1", prevIndex |-> 0]>>,
             outputs |-> <<[assetId |-> "602c", value |-> [fixed8 |-> 7]]>>]

\* The symbols addAsset is called with, and the snapshots passed to it: none,
\* or a partial one (no spent list) with a stale balance, the unspent coin
\* t1:0 and an unconfirmed coin of a transaction s1.
AssetSyms == {"gas", "NEO"}

Snapshots ==
    { NoSnapshot,
      [balance     |-> [number |-> 99],
       unspent     |-> <<[index |-> 0, txid |-> "t1", value |-> [number |-> 10]]>>,
       unconfirmed |-> <<[index |-> 1, txid |-> "s1", value |-> [number |-> 5]]>>] }

\* The symbols and amounts addToken is called with.
TokenSyms == {"rpx"}

TokenAmounts == {[number |-> 7]}

-----------------------------------------------------------------------------
(* The Balance object and its synchronous methods, as functions of the     *)
(* object before the call                                                  *)

This ==
    [address |-> address, net |-> net,
     assetSymbols |-> assetSymbols, assets |-> assets,
     tokenSymbols |-> tokenSymbols, tokens |-> tokens]

\* addAsset that appends the symbol only when it is not yet in assetSymbols.
addAsset_Dedup(b, sym, assetBalance) ==
    LET SYM == toUpperCase(sym)
    IN  [b EXCEPT !.assetSymbols = IF \E i \in 1..Len(@) : @[i] = SYM
                                   THEN @ ELSE Append(@, SYM),
                  !.assets = Put(@, SYM, NewAssetBalance(assetBalance))]

\* Balance.addAsset
addAsset(b, sym, assetBalance) ==
    LET SYM == toUpperCase(sym)
    IN  [b EXCEPT !.assetSymbols = Append(@, SYM),
                  !.assets = Put(@, SYM, NewAssetBalance(assetBalance))]

\* Balance.addToken
addToken(b, sym, tokenBalance) ==
    LET SYM == toUpperCase(sym)
    IN  [b EXCEPT !.tokenSymbols = Append(@, SYM),
                  !.tokens = Put(@, SYM, NewFixed8(tokenBalance))]

\* SpendInput with slice in place of splice: the coin is appended to spent
\* and stays in unspent.
SpendInput_Copy(b, input) ==
    LET symbols == b.assetSymbols
        owners == {k \in 1..Len(symbols) :
                     FindIndex(Get(b.assets, symbols[k]).unspent,
                               input.prevHash, input.prevIndex) > 0}
    IN  IF owners = {} THEN b
        ELSE LET k == CHOOSE x \in owners : \A y \in owners : x <= y
                 sym == symbols[k]
                 assetBalance == Get(b.assets, sym)
                 ind == FindIndex(assetBalance.unspent,
                                  input.prevHash, input.prevIndex)
             IN  [b EXCEPT !.assets = Put(@, sym, Recompute(
                    [assetBalance EXCEPT
                        !.spent = @ \o <<assetBalance.unspent[ind]>>]))]

\* SpendInput without the break: the last asset in assetSymbols order that
\* holds the coin is the one changed.
SpendInput_NoBreak(b, input) ==
    LET symbols == b.assetSymbols
        owners == {k \in 1..Len(symbols) :
                     FindIndex(Get(b.assets, symbols[k]).unspent,
                               input.prevHash, input.prevIndex) > 0}
    IN  IF owners = {} THEN b
        ELSE LET k == CHOOSE x \in owners : \A y \in owners : x >= y
                 sym == symbols[k]
                 assetBalance == Get(b.assets, sym)
                 ind == FindIndex(assetBalance.unspent,
                                  input.prevHash, input.prevIndex)
             IN  [b EXCEPT !.assets = Put(@, sym, Recompute(
                    [assetBalance EXCEPT
                        !.unspent = Splice(@, ind),
                        !.spent = @ \o <<assetBalance.unspent[ind]>>]))]

\* applyTx, spend phase, one input: the first asset in assetSymbols order
\* whose unspent list holds the referenced coin moves it to its spent list.
SpendInput(b, input) ==
    LET symbols == b.assetSymbols
        owners == {k \in 1..Len(symbols) :
                     FindIndex(Get(b.assets, symbols[k]).unspent,
                               input.prevHash, input.prevIndex) > 0}
    IN  IF owners = {} THEN b
        ELSE LET k == CHOOSE x \in owners : \A y \in owners : x <= y
                 sym == symbols[k]
                 assetBalance == Get(b.assets, sym)
                 ind == FindIndex(assetBalance.unspent,
                                  input.prevHash, input.prevIndex)
             IN  [b EXCEPT !.assets = Put(@, sym, Recompute(
                    [assetBalance EXCEPT
                        !.unspent = Splice(@, ind),
                        !.spent = @ \o <<assetBalance.unspent[ind]>>]))]

RECURSIVE SpendPhase(_, _, _)
\* applyTx, spend phase: the first n inputs in order.
SpendPhase(b, inputs, n) ==
    IF n = 0 THEN b
    ELSE SpendInput(SpendPhase(b, inputs, n - 1), inputs[n])

\* ReceiveOutput that leaves the pending copy of a confirmed coin in the
\* unconfirmed list.
ReceiveOutput_KeepPending(r, tx, i, confirmed) ==
    LET b == r.b
        output == tx.outputs[i]
        sym == ASSETS(output.assetId)
        present == Has(b.assets, sym)
        coin == NewCoin([index |-> i - 1, txid |-> tx.hash, value |-> output.value])
    IN  IF r.err # "none" THEN r
        ELSE IF ~present /\ sym = UndefinedSym
        THEN [b |-> b, err |-> "TypeError"]
        ELSE IF ~present
        THEN [b |-> addAsset(b, sym, NoSnapshot), err |-> "TypeError"]
        ELSE LET assetBalance == Get(b.assets, sym)
                 confirmedAB ==
                    [assetBalance EXCEPT !.unspent = Append(@, coin)]
                 unconfirmedAB ==
                    [assetBalance EXCEPT !.unconfirmed = Append(@, coin)]
             IN  [b |-> [b EXCEPT !.assets = Put(@, sym,
                            Recompute(IF confirmed THEN confirmedAB ELSE unconfirmedAB))],
                  err |-> "none"]

\* ReceiveOutput whose addAsset accepts the undefined symbol of an
\* unregistered asset id instead of throwing.
ReceiveOutput_Lenient(r, tx, i, confirmed) ==
    LET b == r.b
        output == tx.outputs[i]
        sym == ASSETS(output.assetId)
        present == Has(b.assets, sym)
        coin == NewCoin([index |-> i - 1, txid |-> tx.hash, value |-> output.value])
    IN  IF r.err # "none" THEN r
        ELSE IF ~present
        THEN [b |-> addAsset(b, sym, NoSnapshot), err |-> "TypeError"]
        ELSE LET assetBalance == Get(b.assets, sym)
                 unconfirmedIndex == FindIndex(assetBalance.unconfirmed,
                                               coin.txid, coin.index)
                 confirmedAB ==
                    [assetBalance EXCEPT
                        !.unconfirmed = IF unconfirmedIndex > 0
                                        THEN Splice(@, unconfirmedIndex) ELSE @,
                        !.unspent = Append(@, coin)]
                 unconfirmedAB ==
                    [assetBalance EXCEPT !.unconfirmed = Append(@, coin)]
             IN  [b |-> [b EXCEPT !.assets = Put(@, sym,
                            Recompute(IF confirmed THEN confirmedAB ELSE unconfirmedAB))],
                  err |-> "none"]

\* applyTx, receive phase, the output at position i (1-based; the coin's
\* index is i - 1).  r is [b, err]; an exception ends the call.
ReceiveOutput(r, tx, i, confirmed) ==
    LET b == r.b
        output == tx.outputs[i]
        sym == ASSETS(output.assetId)
        present == Has(b.assets, sym)
        coin == NewCoin([index |-> i - 1, txid |-> tx.hash, value |-> output.value])
    IN  IF r.err # "none" THEN r
        ELSE IF ~present /\ sym = UndefinedSym
        THEN \* addAsset(undefined): sym.toUpperCase() throws
             [b |-> b, err |-> "TypeError"]
        ELSE IF ~present
        THEN \* the asset is added, but the local assetBalance is still
             \* undefined when its unconfirmed list is read
             [b |-> addAsset(b, sym, NoSnapshot), err |-> "TypeError"]
        ELSE LET assetBalance == Get(b.assets, sym)
                 unconfirmedIndex == FindIndex(assetBalance.unconfirmed,
                                               coin.txid, coin.index)
                 confirmedAB ==
                    [assetBalance EXCEPT
                        !.unconfirmed = IF unconfirmedIndex > 0
                                        THEN Splice(@, unconfirmedIndex) ELSE @,
                        !.unspent = Append(@, coin)]
                 unconfirmedAB ==
                    [assetBalance EXCEPT !.unconfirmed = Append(@, coin)]
             IN  [b |-> [b EXCEPT !.assets = Put(@, sym,
                            Recompute(IF confirmed THEN confirmedAB ELSE unconfirmedAB))],
                  err |-> "none"]

RECURSIVE ReceivePhase(_, _, _, _)
\* applyTx, receive phase: the first n outputs in order.
ReceivePhase(r, tx, n, confirmed) ==
    IF n = 0 THEN r
    ELSE ReceiveOutput(ReceivePhase(r, tx, n - 1, confirmed), tx, n, confirmed)

\* applyTx that adds the outputs before it spends the inputs.
applyTx_ReceiveFirst(b, tx, confirmed) ==
    LET r == ReceivePhase([b |-> b, err |-> "none"], tx, Len(tx.outputs), confirmed)
    IN  [b |-> SpendPhase(r.b, tx.inputs, Len(tx.inputs)), err |-> r.err]

\* Balance.applyTx: the object after the call and the exception it ended
\* with, if any.
applyTx(b, tx, confirmed) ==
    ReceivePhase([b |-> SpendPhase(b, tx.inputs, Len(tx.inputs)), err |-> "none"],
                 tx, Len(tx.outputs), confirmed)

\* ConfirmAsset that puts the promoted coins in front of the unspent ones.
ConfirmAsset_Prepend(assetBalance) ==
    Recompute([assetBalance EXCEPT
                 !.unspent = assetBalance.unconfirmed \o assetBalance.unspent,
                 !.unconfirmed = <<>>])

\* ConfirmAsset that starts the spent list afresh.
ConfirmAsset_DropSpent(assetBalance) ==
    Recompute([assetBalance EXCEPT
                 !.unspent = assetBalance.unspent \o assetBalance.unconfirmed,
                 !.spent = <<>>,
                 !.unconfirmed = <<>>])

\* Balance.confirm, one asset.
ConfirmAsset(assetBalance) ==
    Recompute([assetBalance EXCEPT
                 !.unspent = assetBalance.unspent \o assetBalance.unconfirmed,
                 !.unconfirmed = <<>>])

RECURSIVE confirm(_, _)
\* Balance.confirm: the first n symbols of assetSymbols in order.
confirm(b, n) ==
    IF n = 0 THEN b
    ELSE LET b1 == confirm(b, n - 1)
             sym == b1.assetSymbols[n]
         IN  [b1 EXCEPT !.assets = Put(@, sym, ConfirmAsset(Get(b1.assets, sym)))]

\* exportAssets
exportAssets(as) ==
    [i \in 1..Len(as) |-> [key |-> as[i].key, val |-> ExportAssetBalance(as[i].val)]]

\* exportTokens
exportTokens(ts) ==
    [i \in 1..Len(ts) |-> [key |-> ts[i].key, val |-> toNumber(ts[i].val)]]

\* Balance.export
export(b) ==
    [net |-> b.net, address |-> b.address,
     assetSymbols |-> b.assetSymbols, assets |-> exportAssets(b.assets),
     tokenSymbols |-> b.tokenSymbols, tokens |-> exportTokens(b.tokens)]

RECURSIVE AddAssets(_, _, _)
\* The constructor's loop over Object.keys(bal.assets).
AddAssets(b, as, n) ==
    IF n = 0 THEN b
    ELSE addAsset(AddAssets(b, as, n - 1), as[n].key, as[n].val)

RECURSIVE AddTokens(_, _, _)
\* The constructor's loop over Object.keys(bal.tokens).
AddTokens(b, ts, n) ==
    IF n = 0 THEN b
    ELSE addToken(AddTokens(b, ts, n - 1), ts[n].key, ts[n].val)

\* new Balance(bal) for a partial BalanceLike.
NewBalance(bal) ==
    LET b0 == [address |-> IF "address" \in DOMAIN bal /\ bal.address # ""
                           THEN bal.address ELSE "",
               net |-> IF "net" \in DOMAIN bal /\ bal.net # ""
                       THEN bal.net ELSE "NoNet",
               assetSymbols |-> <<>>, assets |-> <<>>,
               tokenSymbols |-> <<>>, tokens |-> <<>>]
        b1 == IF "assets" \in DOMAIN bal
              THEN AddAssets(b0, bal.assets, Len(bal.assets)) ELSE b0
    IN  IF "tokens" \in DOMAIN bal
        THEN AddTokens(b1, bal.tokens, Len(bal.tokens)) ELSE b1

-----------------------------------------------------------------------------
(* verifyAssets: the promises of one call *)

\* The answers of the node to getTxOut for the coin c: no result, the
\* output as the coin records it, or an output that differs from the coin
\* (in its value for a first output, in its position for a later one).
Responses(c) ==
    { [result |-> <<>>],
      [result |-> <<[n |-> c.index, value |-> toNumber(c.value)]>>],
      IF c.index = 0
      THEN [result |-> <<[n |-> c.index, value |-> [number |-> c.value.fixed8 + 1]]>>]
      ELSE [result |-> <<[n |-> c.index - 1, value |-> toNumber(c.value)]>>] }

\* Fixed8.equals
equals(a, x) == a.fixed8 = NewFixed8(x).fixed8

\* verifyCoin that compares the index only.
verifyCoin_IndexOnly(c, response) ==
    IF response.result = <<>> THEN FALSE
    ELSE c.index = response.result[1].n

\* verifyCoin, once the query has answered.
verifyCoin(c, response) ==
    IF response.result = <<>> THEN FALSE
    ELSE c.index = response.result[1].n /\ equals(c.value, response.result[1].value)

\* verifyCoins and the start of verifyAssetBalance: one query per coin of
\* the asset's unspent list, issued when verifyAssets is called.
verifyCoins(coinArr) ==
    [j \in 1..Len(coinArr) |->
        [coin |-> coinArr[j], status |-> "pending", response |-> <<>>]]

RECURSIVE VerdictLoop(_, _, _)
\* The forEach of verifyAssetBalance over the first n verdicts; the coin of
\* verdict j is read from the asset's unspent list at position j.
VerdictLoop(assetBalance, validCoins, n) ==
    IF n = 0
    THEN [balance |-> [fixed8 |-> 0], spent |-> <<>>, unspent |-> <<>>,
          unconfirmed |-> <<>>]
    ELSE LET acc == VerdictLoop(assetBalance, validCoins, n - 1)
             coin == assetBalance.unspent[n]
         IN  IF validCoins[n]
             THEN [acc EXCEPT !.unspent = Append(@, coin),
                              !.balance = add(@, coin.value)]
             ELSE [acc EXCEPT !.spent = Append(@, coin)]

\* verifyAssetBalance after its await: the replacement AssetBalance.
verifyAssetBalance(assetBalance, validCoins) ==
    NewAssetBalance(VerdictLoop(assetBalance, validCoins, Len(validCoins)))

RECURSIVE ReplaceAssets(_, _, _, _)
\* The then-callback of verifyAssets: this.assets[sym] = newBalances[i] for
\* the first n symbols.
ReplaceAssets(as, symbols, newBalances, n) ==
    IF n = 0 THEN as
    ELSE Put(ReplaceAssets(as, symbols, newBalances, n - 1),
             symbols[n], newBalances[n])

Idle == [phase |-> "idle", pre |-> <<>>, syms |-> <<>>, queries |-> <<>>,
         results |-> <<>>, placed |-> {}]

NoCall == [op |-> "new", err |-> "none", arg |-> <<>>, pre |-> <<>>,
           queries |-> <<>>, results |-> <<>>]

-----------------------------------------------------------------------------
(* The state after construction and the calls *)

\* new Balance({address, net}), and new Balance({address, net, assets})
\* with an empty GAS asset.
InitialBalances ==
    { NewBalance([address |-> "AK2nJJpJr6o664CWJKi1QRXjqeic2zRp8y", net |-> "TestNet"]),
      NewBalance([address |-> "AK2nJJpJr6o664CWJKi1QRXjqeic2zRp8y", net |-> "TestNet",
                  assets |-> <<[key |-> "GAS", val |-> NoSnapshot]>>]) }

Init ==
    /\ \E b \in InitialBalances :
          /\ address = b.address
          /\ net = b.net
          /\ assetSymbols = b.assetSymbols
          /\ assets = b.assets
          /\ tokenSymbols = b.tokenSymbols
          /\ tokens = b.tokens
    /\ verify = Idle
    /\ last = NoCall
    /\ applied = [p \in (Hashes \cup SelfHashes) \X BOOLEAN |-> 0]
    /\ loaded = {}
    /\ spentRefs = {}
    /\ nops = 0

\* The object after a synchronous call.
Becomes(b) ==
    /\ address' = b.address
    /\ net' = b.net
    /\ assetSymbols' = b.assetSymbols
    /\ assets' = b.assets
    /\ tokenSymbols' = b.tokenSymbols
    /\ tokens' = b.tokens

\* The txids of the coins of a snapshot.
SnapshotTxids(abLike) ==
    UNION { {abLike[f][i].txid : i \in 1..Len(abLike[f])} :
            f \in DOMAIN abLike \ {"balance"} }

\* The coin identity ref is in the unspent or the unconfirmed list of some
\* asset of b.
Held(b, ref) ==
    \E k \in 1..Len(b.assets) :
        \/ \E i \in 1..Len(b.assets[k].val.unspent) :
              CoinId(b.assets[k].val.unspent[i]) = ref
        \/ \E i \in 1..Len(b.assets[k].val.unconfirmed) :
              CoinId(b.assets[k].val.unconfirmed[i]) = ref

\* The caller may call: calls are made one at a time, and verifyAssets is
\* awaited before the next call.
MayCall == verify.phase = "idle" /\ nops < MaxOps

AddAsset(sym, abLike) ==
    /\ MayCall
    /\ Becomes(addAsset(This, sym, abLike))
    /\ last' = [op |-> "addAsset", err |-> "none",
                arg |-> [sym |-> sym, assetBalance |-> abLike],
                pre |-> This, queries |-> <<>>, results |-> <<>>]
    /\ loaded' = loaded \cup SnapshotTxids(abLike)
    /\ nops' = nops + 1
    /\ UNCHANGED <<verify, applied, spentRefs>>

AddToken(sym, tokenBalance) ==
    /\ MayCall
    /\ Becomes(addToken(This, sym, tokenBalance))
    /\ last' = [op |-> "addToken", err |-> "none",
                arg |-> [sym |-> sym, tokenBalance |-> tokenBalance],
                pre |-> This, queries |-> <<>>, results |-> <<>>]
    /\ nops' = nops + 1
    /\ UNCHANGED <<verify, applied, loaded, spentRefs>>

ApplyTx(h, confirmed) ==
    /\ MayCall
    /\ LET r == applyTx(This, Tx(h), confirmed)
       IN  /\ Becomes(r.b)
           /\ last' = [op |-> "applyTx", err |-> r.err,
                       arg |-> [tx |-> Tx(h), confirmed |-> confirmed],
                       pre |-> This, queries |-> <<>>, results |-> <<>>]
    /\ applied' = [applied EXCEPT ![<<h, confirmed>>] = @ + 1]
    /\ spentRefs' = spentRefs \cup
          {ref \in {<<Tx(h).inputs[i].prevHash, Tx(h).inputs[i].prevIndex>> :
                      i \in 1..Len(Tx(h).inputs)} : Held(This, ref)}
    /\ nops' = nops + 1
    /\ UNCHANGED <<verify, loaded>>

Confirm ==
    /\ MayCall
    /\ Becomes(confirm(This, Len(assetSymbols)))
    /\ last' = [op |-> "confirm", err |-> "none", arg |-> <<>>,
                pre |-> This, queries |-> <<>>, results |-> <<>>]
    /\ nops' = nops + 1
    /\ UNCHANGED <<verify, applied, loaded, spentRefs>>

RECURSIVE QueryCount(_, _)
\* The number of queries verifyAssets issues for the first n symbols.
QueryCount(b, n) ==
    IF n = 0 THEN 0
    ELSE QueryCount(b, n - 1) + Len(Get(b.assets, b.assetSymbols[n]).unspent)

\* verifyAssets up to its first await: one verifyAssetBalance promise per
\* entry of assetSymbols, each with one query per coin of the unspent list.
VerifyStart ==
    /\ MayCall
    /\ QueryCount(This, Len(assetSymbols)) <= MaxQueries
    /\ verify' = [phase |-> "running", pre |-> This, syms |-> assetSymbols,
                  queries |-> [i \in 1..Len(assetSymbols) |->
                                 verifyCoins(Get(assets, assetSymbols[i]).unspent)],
                  results |-> [i \in 1..Len(assetSymbols) |-> <<>>],
                  placed |-> {}]
    /\ nops' = nops + 1
    /\ UNCHANGED <<address, net, assetSymbols, assets, tokenSymbols, tokens,
                   last, applied, loaded, spentRefs>>

\* Ready that lets verifyAssetBalance resume as soon as one of its queries
\* has answered.
Ready_First(i) ==
    /\ verify.results[i] = <<>>
    /\ \/ verify.queries[i] = <<>>
       \/ \E j \in 1..Len(verify.queries[i]) : verify.queries[i][j].status # "pending"

\* Every query of promise i has answered and verifyAssetBalance has not yet
\* resumed from its await.
Ready(i) ==
    /\ verify.results[i] = <<>>
    /\ \A j \in 1..Len(verify.queries[i]) : verify.queries[i][j].status # "pending"

\* A promise reaction of the call is queued: a verifyAssetBalance to resume,
\* or the then-callback.  Reactions run before the next answer of the node
\* is delivered.
ReactionQueued ==
    /\ verify.phase = "running"
    /\ \/ \E i \in 1..Len(verify.results) : Ready(i)
       \/ \A i \in 1..Len(verify.results) : verify.results[i] # <<>>

\* The node answers query j of promise i.
QueryAnswers(i, j, response) ==
    /\ verify.phase = "running"
    /\ ~ReactionQueued
    /\ verify.queries[i][j].status = "pending"
    /\ verify' = [verify EXCEPT
                    !.queries[i][j].status =
                        IF verifyCoin(verify.queries[i][j].coin, response)
                        THEN "valid" ELSE "invalid",
                    !.queries[i][j].response = <<response>>]
    /\ UNCHANGED <<address, net, assetSymbols, assets, tokenSymbols, tokens,
                   last, applied, loaded, spentRefs, nops>>

\* QueryFails that still installs the replacements already computed.
QueryFails_Partial(i, j) ==
    /\ verify.phase = "running"
    /\ ~ReactionQueued
    /\ verify.queries[i][j].status = "pending"
    /\ verify' = Idle
    /\ assets' = [k \in 1..Len(assets) |->
          IF \E x \in 1..Len(verify.syms) :
                verify.syms[x] = assets[k].key /\ verify.results[x] # <<>>
          THEN [key |-> assets[k].key,
                val |-> verify.results[CHOOSE x \in 1..Len(verify.syms) :
                          verify.syms[x] = assets[k].key /\ verify.results[x] # <<>>][1]]
          ELSE assets[k]]
    /\ last' = [op |-> "verifyAssets", err |-> "rejected", arg |-> <<>>,
                pre |-> verify.pre,
                queries |-> [verify.queries EXCEPT ![i][j].status = "failed"],
                results |-> verify.results]
    /\ UNCHANGED <<address, net, assetSymbols, tokenSymbols, tokens,
                   applied, loaded, spentRefs, nops>>

\* Query j of promise i fails: verifyCoin, verifyCoins, verifyAssetBalance
\* and the Promise.all of verifyAssets reject in turn, and the then-callback
\* is not run.
QueryFails(i, j) ==
    /\ verify.phase = "running"
    /\ ~ReactionQueued
    /\ verify.queries[i][j].status = "pending"
    /\ verify' = Idle
    /\ last' = [op |-> "verifyAssets", err |-> "rejected", arg |-> <<>>,
                pre |-> verify.pre,
                queries |-> [verify.queries EXCEPT ![i][j].status = "failed"],
                results |-> verify.results]
    /\ UNCHANGED <<address, net, assetSymbols, assets, tokenSymbols, tokens,
                   applied, loaded, spentRefs, nops>>

\* BatchCompletes that never resumes the verifyAssetBalance of an asset
\* without unspent coins.
BatchCompletes_NonEmpty(i) ==
    /\ verify.phase = "running"
    /\ Ready(i)
    /\ verify.queries[i] # <<>>
    /\ \A k \in 1..(i - 1) : ~Ready(k)
    /\ verify' = [verify EXCEPT !.results[i] =
                    <<verifyAssetBalance(Get(assets, verify.syms[i]),
                        [j \in 1..Len(verify.queries[i]) |->
                            verify.queries[i][j].status = "valid"])>>]
    /\ UNCHANGED <<address, net, assetSymbols, assets, tokenSymbols, tokens,
                   last, applied, loaded, spentRefs, nops>>

\* All queries of promise i have answered: verifyAssetBalance resumes and
\* resolves with the replacement AssetBalance.  Queued reactions run in
\* the order of their promises.
BatchCompletes(i) ==
    /\ verify.phase = "running"
    /\ Ready(i)
    /\ \A k \in 1..(i - 1) : ~Ready(k)
    /\ verify' = [verify EXCEPT !.results[i] =
                    <<verifyAssetBalance(Get(assets, verify.syms[i]),
                        [j \in 1..Len(verify.queries[i]) |->
                            verify.queries[i][j].status = "valid"])>>]
    /\ UNCHANGED <<address, net, assetSymbols, assets, tokenSymbols, tokens,
                   last, applied, loaded, spentRefs, nops>>

\* Every verifyAssetBalance promise has resolved: the then-callback replaces
\* the assets and the call resolves.
VerifyFinish ==
    /\ verify.phase = "running"
    /\ \A i \in 1..Len(verify.results) : verify.results[i] # <<>>
    /\ assets' = ReplaceAssets(assets, assetSymbols,
                    [i \in 1..Len(verify.results) |-> verify.results[i][1]],
                    Len(assetSymbols))
    /\ verify' = Idle
    /\ last' = [op |-> "verifyAssets", err |-> "none", arg |-> <<>>,
                pre |-> verify.pre, queries |-> verify.queries,
                results |-> verify.results]
    /\ UNCHANGED <<address, net, assetSymbols, tokenSymbols, tokens,
                   applied, loaded, spentRefs, nops>>

Next ==
    \/ \E sym \in AssetSyms, abLike \in Snapshots : AddAsset(sym, abLike)
    \/ \E sym \in TokenSyms, amount \in TokenAmounts : AddToken(sym, amount)
    \/ \E h \in Hashes, confirmed \in BOOLEAN : ApplyTx(h, confirmed)
    \/ Confirm
    \/ VerifyStart
    \/ \E i \in 1..Len(verify.queries) : \E j \in 1..Len(verify.queries[i]) :
          \E response \in Responses(verify.queries[i][j].coin) :
             QueryAnswers(i, j, response)
    \/ \E i \in 1..Len(verify.queries) : \E j \in 1..Len(verify.queries[i]) :
          QueryFails(i, j)
    \/ \E i \in 1..Len(verify.results) : BatchCompletes(i)
    \/ VerifyFinish

Spec == Init /\ [][Next]_vars

\* The calls of Spec, and applyTx with a transaction that names its own
\* output as an input.
NextSelf ==
    \/ Next
    \/ \E h \in SelfHashes, confirmed \in BOOLEAN : ApplyTx(h, confirmed)

SpecSelf == Init /\ [][NextSelf]_vars

\* The <<symbol, coin identity>> pairs of the coins that a list of an asset
\* of b2 holds more often than the same list in b.
PlacedBy(b, b2) ==
    UNION { UNION { {<<b2.assets[k].key, CoinId(b2.assets[k].val[f][x])>> :
                       x \in {y \in 1..Len(b2.assets[k].val[f]) :
                                Count(b2.assets[k].val[f], CoinId(b2.assets[k].val[f][y]))
                                  > Count(Get(b.assets, b2.assets[k].key)[f],
                                          CoinId(b2.assets[k].val[f][y]))}} :
                    f \in {"unspent", "spent", "unconfirmed"} } :
            k \in 1..Len(b2.assets) }

\* What verifyAssetBalance and the then-callback can read without meeting an
\* undefined value when the Balance became b2 while they wait: the symbols
\* are those the call started with, and every unspent list a pending
\* verifyAssetBalance will index is at least as long as its list of verdicts.
Readable(b2) ==
    /\ b2.assetSymbols = assetSymbols
    /\ \A i \in 1..Len(verify.syms) :
          verify.results[i] = <<>> =>
             Len(Get(b2.assets, verify.syms[i]).unspent) >= Len(verify.queries[i])

\* The caller did not await verifyAssets and calls while the node has not
\* answered every query.
MayCallDuring ==
    /\ verify.phase = "running"
    /\ ~ReactionQueued
    /\ nops < MaxOps

\* applyTx called while verifyAssets waits.
ApplyTxDuring(h, confirmed) ==
    /\ MayCallDuring
    /\ LET r == applyTx(This, Tx(h), confirmed)
       IN  /\ Readable(r.b)
           /\ Becomes(r.b)
           /\ last' = [op |-> "applyTx", err |-> r.err,
                       arg |-> [tx |-> Tx(h), confirmed |-> confirmed],
                       pre |-> This, queries |-> <<>>, results |-> <<>>]
           /\ verify' = [verify EXCEPT !.placed = @ \cup PlacedBy(This, r.b)]
    /\ applied' = [applied EXCEPT ![<<h, confirmed>>] = @ + 1]
    /\ spentRefs' = spentRefs \cup
          {ref \in {<<Tx(h).inputs[i].prevHash, Tx(h).inputs[i].prevIndex>> :
                      i \in 1..Len(Tx(h).inputs)} : Held(This, ref)}
    /\ nops' = nops + 1
    /\ UNCHANGED loaded

\* confirm called while verifyAssets waits.
ConfirmDuring ==
    /\ MayCallDuring
    /\ LET b2 == confirm(This, Len(assetSymbols))
       IN  /\ Readable(b2)
           /\ Becomes(b2)
           /\ verify' = [verify EXCEPT !.placed = @ \cup PlacedBy(This, b2)]
    /\ last' = [op |-> "confirm", err |-> "none", arg |-> <<>>,
                pre |-> This, queries |-> <<>>, results |-> <<>>]
    /\ nops' = nops + 1
    /\ UNCHANGED <<applied, loaded, spentRefs>>

\* The calls of Spec, and applyTx and confirm called while a verifyAssets
\* call that was not awaited waits for the node.
NextAsync ==
    \/ Next
    \/ \E h \in Hashes, confirmed \in BOOLEAN : ApplyTxDuring(h, confirmed)
    \/ ConfirmDuring

SpecAsync == Init /\ [][NextAsync]_vars

\* The node answers or fails some query.
AnswerOrFail ==
    \E i \in 1..Len(verify.queries) : \E j \in 1..Len(verify.queries[i]) :
        \/ \E response \in Responses(verify.queries[i][j].coin) :
              QueryAnswers(i, j, response)
        \/ QueryFails(i, j)

\* A queued promise reaction of the call runs.
Reaction ==
    \/ \E i \in 1..Len(verify.results) : BatchCompletes(i)
    \/ VerifyFinish

\* verifyAssets on the Balances that addAsset and the confirmed transaction
\* t1 build.
NextFair ==
    \/ \E sym \in AssetSyms, abLike \in Snapshots : AddAsset(sym, abLike)
    \/ ApplyTx("t1", TRUE)
    \/ VerifyStart
    \/ AnswerOrFail
    \/ Reaction

\* The runs in which every issued query completes or fails and the event
\* loop runs the reactions of settled promises.
SpecFair ==
    Init /\ [][NextFair]_vars /\ WF_vars(AnswerOrFail) /\ WF_vars(Reaction)

-----------------------------------------------------------------------------
(* Properties *)

\* The coin identities of a list.
Ids(coins) == {CoinId(coins[i]) : i \in 1..Len(coins)}

\* The three coin lists of an AssetBalance share no identity.
Disjoint(ab) ==
    /\ Ids(ab.unspent) \cap Ids(ab.spent) = {}
    /\ Ids(ab.unspent) \cap Ids(ab.unconfirmed) = {}
    /\ Ids(ab.spent) \cap Ids(ab.unconfirmed) = {}

\* Each transaction was applied at most once, whatever the flag.
OncePerHash ==
    \A h \in Hashes : applied[<<h, TRUE>>] + applied[<<h, FALSE>>] <= 1

\* Each transaction was applied at most once with each value of the flag.
OncePerFlag == \A p \in Hashes \X BOOLEAN : applied[p] <= 1

\* No coin identity was handed to the Balance twice: each transaction was
\* applied at most once, and no snapshot held a coin of an applied one.
NoReintroduction ==
    /\ OncePerHash
    /\ \A h \in Hashes \cap loaded :
          applied[<<h, TRUE>>] + applied[<<h, FALSE>>] = 0

\* C1 as stated: in every reachable state the unspent, spent and
\* unconfirmed lists of every asset are pairwise disjoint in coin identity.
C1_DisjointAlways == \A k \in 1..Len(assets) : Disjoint(assets[k].val)

\* C1, amended: the unspent, spent and unconfirmed lists of every asset are
\* pairwise disjoint in coin identity as long as no coin identity was handed
\* to the Balance twice.
C1_DisjointOnce ==
    NoReintroduction => \A k \in 1..Len(assets) : Disjoint(assets[k].val)

C1_Witness ==
    /\ NoReintroduction
    /\ last.op = "applyTx"
    /\ last.err = "none"
    /\ \E k \in 1..Len(assets) :
          /\ assets[k].val.unspent # <<>>
          /\ assets[k].val.spent # <<>>
          /\ assets[k].val.unconfirmed # <<>>

\* C2: after every operation the balance of every asset is the sum of the
\* values of the coins in its unspent list.
C2_BalanceIsSum ==
    \A k \in 1..Len(assets) :
        assets[k].val.balance = SumValues(assets[k].val.unspent)

C2_Witness ==
    /\ last.op = "verifyAssets"
    /\ last.err = "none"
    /\ \E k \in 1..Len(assets) :
          /\ assets[k].val.balance.fixed8 > 0
          /\ assets[k].val.balance # Get(last.pre.assets, assets[k].key).balance

\* The positions of the outputs of the last applyTx whose registered asset
\* had no AssetBalance before the call.
NewAssetOutputs ==
    {i \in 1..Len(last.arg.tx.outputs) :
        /\ ASSETS(last.arg.tx.outputs[i].assetId) # UndefinedSym
        /\ ~Has(last.pre.assets, ASSETS(last.arg.tx.outputs[i].assetId))}

\* C3: applyTx on an output whose asset has no AssetBalance yet does not
\* raise; it creates the asset and puts the new coin (index = position,
\* txid = hash, value = output value) in unconfirmed, or in unspent when
\* confirmed.
C3_NewAssetOutput ==
    (last.op = "applyTx" /\ NewAssetOutputs # {}) =>
        /\ last.err = "none"
        /\ \A i \in NewAssetOutputs :
              LET sym == ASSETS(last.arg.tx.outputs[i].assetId)
                  coin == [index |-> i - 1, txid |-> last.arg.tx.hash,
                           value |-> last.arg.tx.outputs[i].value]
                  list == IF last.arg.confirmed
                          THEN Get(assets, sym).unspent
                          ELSE Get(assets, sym).unconfirmed
              IN  Has(assets, sym) /\ \E x \in 1..Len(list) : list[x] = coin

\* The positions in assetSymbols of the assets whose unspent list holds the
\* coin an input names.
Owners(b, input) ==
    {k \in 1..Len(b.assetSymbols) :
        \E x \in 1..Len(Get(b.assets, b.assetSymbols[k]).unspent) :
            CoinId(Get(b.assets, b.assetSymbols[k]).unspent[x])
                = <<input.prevHash, input.prevIndex>>}

\* What one input of the spend phase does to the Balance b, giving b2.
SpendPost(b, input, b2) ==
    /\ b2.assetSymbols = b.assetSymbols
    /\ Keys(b2.assets) = Keys(b.assets)
    /\ IF Owners(b, input) = {} THEN b2 = b
       ELSE LET k == CHOOSE x \in Owners(b, input) : \A y \in Owners(b, input) : x <= y
                sym == b.assetSymbols[k]
                old == Get(b.assets, sym)
                new == Get(b2.assets, sym)
            IN  /\ \E x \in 1..Len(old.unspent) :
                      /\ CoinId(old.unspent[x]) = <<input.prevHash, input.prevIndex>>
                      /\ new.unspent = SubSeq(old.unspent, 1, x - 1)
                                        \o SubSeq(old.unspent, x + 1, Len(old.unspent))
                      /\ new.spent = old.spent \o <<old.unspent[x]>>
                /\ new.unconfirmed = old.unconfirmed
                /\ \A n \in 1..Len(b.assets) :
                      b.assets[n].key # sym => b2.assets[n] = b.assets[n]

\* C4: each input of applyTx moves the coin it names from unspent to spent
\* in the first asset, in assetSymbols order, whose unspent list holds it,
\* and changes no other asset; an input no asset holds changes nothing.
C4_SpendPhase ==
    last.op = "applyTx" =>
        LET pre == last.pre
            inputs == last.arg.tx.inputs
            spent == SpendPhase(pre, inputs, Len(inputs))
        IN  /\ \A n \in 1..Len(inputs) :
                  SpendPost(SpendPhase(pre, inputs, n - 1), inputs[n],
                            SpendPhase(pre, inputs, n))
            /\ \A k \in 1..Len(pre.assets) :
                  Get(assets, pre.assets[k].key).spent = spent.assets[k].val.spent

C4_Witness ==
    /\ last.op = "applyTx"
    /\ last.err = "none"
    /\ \E n \in 1..Len(last.arg.tx.inputs) :
          Cardinality(Owners(last.pre, last.arg.tx.inputs[n])) >= 2
    /\ \E n \in 1..Len(last.arg.tx.inputs) :
          Owners(last.pre, last.arg.tx.inputs[n]) = {}

\* C5: once applyTx has processed an input naming a coin the Balance held
\* (unspent or unconfirmed), that coin is in no unspent list in any later
\* state, when each transaction is applied at most once per value of the
\* flag and no snapshot is loaded.
C5_NoDoubleSpend ==
    (OncePerFlag /\ loaded = {}) =>
        \A k \in 1..Len(assets) : Ids(assets[k].val.unspent) \cap spentRefs = {}

\* C6: confirm leaves every asset with unspent = old unspent followed by
\* old unconfirmed, unconfirmed empty and spent unchanged.
C6_Confirm ==
    last.op = "confirm" =>
        /\ assetSymbols = last.pre.assetSymbols
        /\ Keys(assets) = Keys(last.pre.assets)
        /\ \A k \in 1..Len(assets) :
              LET old == last.pre.assets[k].val
                  new == assets[k].val
              IN  /\ new.unspent = old.unspent \o old.unconfirmed
                  /\ new.unconfirmed = <<>>
                  /\ new.spent = old.spent

C6_Witness ==
    /\ last.op = "confirm"
    /\ \E k \in 1..Len(assets) :
          /\ last.pre.assets[k].val.unspent # <<>>
          /\ last.pre.assets[k].val.unconfirmed # <<>>
          /\ last.pre.assets[k].val.spent # <<>>

\* The node reported the queried coin as an existing output with the coin's
\* index and value.
Reported(q) ==
    /\ q.response # <<>>
    /\ q.response[1].result # <<>>
    /\ q.response[1].result[1].n = q.coin.index
    /\ q.response[1].result[1].value.number = q.coin.value.fixed8

RECURSIVE Select(_, _, _)
\* The coins of the first n queries that were reported (keep) or not (~keep).
Select(qs, n, keep) ==
    IF n = 0 THEN <<>>
    ELSE IF Reported(qs[n]) = keep
         THEN Append(Select(qs, n - 1, keep), qs[n].coin)
         ELSE Select(qs, n - 1, keep)

\* The last position of sym in a list of symbols.
LastPos(symbols, sym) ==
    CHOOSE i \in 1..Len(symbols) :
        symbols[i] = sym /\ \A j \in (i + 1)..Len(symbols) : symbols[j] # sym

\* C7: a verifyAssets call whose queries all answer queries exactly the
\* coins of the old unspent lists, and leaves every asset with unspent = the
\* old unspent coins the node reported with the same index and value, in
\* order, spent = the other old unspent coins, unconfirmed empty and
\* balance = the sum of the new unspent values.
C7_VerifyAssets ==
    (last.op = "verifyAssets" /\ last.err = "none") =>
        /\ Len(last.queries) = Len(last.pre.assetSymbols)
        /\ \A i \in 1..Len(last.queries) :
              [j \in 1..Len(last.queries[i]) |-> last.queries[i][j].coin]
                 = Get(last.pre.assets, last.pre.assetSymbols[i]).unspent
        /\ Keys(assets) = Keys(last.pre.assets)
        /\ \A k \in 1..Len(assets) :
              LET qs == last.queries[LastPos(last.pre.assetSymbols, assets[k].key)]
                  new == assets[k].val
              IN  /\ new.unspent = Select(qs, Len(qs), TRUE)
                  /\ new.spent = Select(qs, Len(qs), FALSE)
                  /\ new.unconfirmed = <<>>
                  /\ new.balance = SumValues(new.unspent)

C7_Witness ==
    /\ last.op = "verifyAssets"
    /\ last.err = "none"
    /\ \E k \in 1..Len(assets) :
          /\ assets[k].val.unspent # <<>>
          /\ assets[k].val.spent # <<>>
          /\ last.pre.assets[k].val.unconfirmed # <<>>

\* C8: when a query fails, verifyAssets ends in failure, the failed coin has
\* no verdict, and the Balance is as it was before the call.
C8_VerifyFailure ==
    (last.op = "verifyAssets" /\ last.err = "rejected") =>
        /\ This = last.pre
        /\ \E i \in 1..Len(last.queries) : \E j \in 1..Len(last.queries[i]) :
              last.queries[i][j].status = "failed"
        /\ \A i \in 1..Len(last.queries) : \A j \in 1..Len(last.queries[i]) :
              last.queries[i][j].status = "failed" =>
                 last.queries[i][j].response = <<>>

C8_Witness ==
    /\ last.op = "verifyAssets"
    /\ last.err = "rejected"
    /\ \E i \in 1..Len(last.results) :
          /\ last.results[i] # <<>>
          /\ last.results[i][1] # Get(last.pre.assets, last.pre.assetSymbols[i])

\* C9: a Balance constructed from the export of a reachable Balance equals
\* it in address, net, assetSymbols, assets, tokenSymbols and tokens.
C9_RoundTrip == NewBalance(export(This)) = This

\* C10: addAsset appends the upper-cased symbol to assetSymbols also when
\* it is already there, and stores under it a fresh AssetBalance holding the
\* snapshot's coins (none when absent), in place of the one stored before.
C10_AddAsset ==
    last.op = "addAsset" =>
        LET SYM == toUpperCase(last.arg.sym)
            snap == last.arg.assetBalance
            new == Get(assets, SYM)
            Coins(f) == IF f \in DOMAIN snap
                        THEN [i \in 1..Len(snap[f]) |->
                                [index |-> snap[f][i].index,
                                 txid |-> snap[f][i].txid,
                                 value |-> [fixed8 |-> snap[f][i].value.number]]]
                        ELSE <<>>
        IN  /\ assetSymbols = last.pre.assetSymbols \o <<SYM>>
            /\ Has(assets, SYM)
            /\ new.unspent = Coins("unspent")
            /\ new.spent = Coins("spent")
            /\ new.unconfirmed = Coins("unconfirmed")
            /\ DOMAIN snap = {} => new.balance = [fixed8 |-> 0]
            /\ \A k \in 1..Len(last.pre.assets) :
                  last.pre.assets[k].key # SYM =>
                     assets[k] = last.pre.assets[k]

C10_Witness ==
    /\ last.op = "addAsset"
    /\ Len(assetSymbols) = 2
    /\ assetSymbols[1] = assetSymbols[2]
    /\ Len(assets) = 1
    /\ last.arg.sym # assetSymbols[2]
    /\ last.pre.assets[1].val.unspent # <<>>
    /\ assets[1].val.unspent = <<>>

\* The positions of the outputs of the last applyTx whose asset id is not in
\* the registry and that the call reached: every earlier output names a
\* registered asset the Balance held before the call.
UnknownOutputs ==
    {i \in 1..Len(last.arg.tx.outputs) :
        /\ ASSETS(last.arg.tx.outputs[i].assetId) = UndefinedSym
        /\ \A j \in 1..(i - 1) :
              /\ ASSETS(last.arg.tx.outputs[j].assetId) # UndefinedSym
              /\ Has(last.pre.assets, ASSETS(last.arg.tx.outputs[j].assetId))}

\* C11: when applyTx meets an output whose asset id is not in the registry,
\* the call ends with an error the caller sees, and neither assetSymbols nor
\* the assets mapping gains a symbol for that output.
C11_UnknownAsset ==
    (last.op = "applyTx" /\ UnknownOutputs # {}) =>
        /\ last.err # "none"
        /\ assetSymbols = last.pre.assetSymbols
        /\ Keys(assets) = Keys(last.pre.assets)
        /\ \A k \in 1..Len(assetSymbols) :
              assetSymbols[k] \notin {UndefinedSym, toUpperCase(UndefinedSym)}

C11_Witness ==
    /\ last.op = "applyTx"
    /\ UnknownOutputs # {}
    /\ last.err = "TypeError"
    /\ \E k \in 1..Len(assets) :
          \E x \in 1..Len(assets[k].val.unspent) :
              assets[k].val.unspent[x].txid = last.arg.tx.hash

RECURSIVE OutputCoins(_, _, _)
\* The coins applyTx builds for the first n outputs of tx that pay the asset
\* sym, in output order.
OutputCoins(tx, sym, n) ==
    IF n = 0 THEN <<>>
    ELSE OutputCoins(tx, sym, n - 1) \o
         (IF ASSETS(tx.outputs[n].assetId) = sym
          THEN <<[index |-> n - 1, txid |-> tx.hash, value |-> tx.outputs[n].value]>>
          ELSE <<>>)

RECURSIVE WithoutEach(_, _, _)
\* The list without, for each of the first n coins in turn, its first entry
\* of the same identity.
WithoutEach(list, coins, n) ==
    IF n = 0 THEN list
    ELSE LET l == WithoutEach(list, coins, n - 1)
             ind == FindIndex(l, coins[n].txid, coins[n].index)
         IN  IF ind > 0 THEN Splice(l, ind) ELSE l

\* A successful applyTx with confirmed = true takes, for each output, the
\* first coin of the same txid and index out of the asset's unconfirmed list
\* and appends the new coin to what the spend phase left of unspent.
ConfirmedReceive ==
    (last.op = "applyTx" /\ last.arg.confirmed /\ last.err = "none") =>
        \A k \in 1..Len(last.pre.assets) :
            LET sym == last.pre.assets[k].key
                tx == last.arg.tx
                coins == OutputCoins(tx, sym, Len(tx.outputs))
                spentB == SpendPhase(last.pre, tx.inputs, Len(tx.inputs))
            IN  /\ Get(assets, sym).unconfirmed
                      = WithoutEach(last.pre.assets[k].val.unconfirmed, coins, Len(coins))
                /\ Get(assets, sym).unspent = Get(spentB.assets, sym).unspent \o coins

\* The step is applyTx(T, true) made directly after a successful
\* applyTx(T, false).
ConfirmsPending ==
    /\ last.op = "applyTx" /\ last.err = "none" /\ ~last.arg.confirmed
    /\ nops' = nops + 1
    /\ last'.op = "applyTx"
    /\ last'.arg = [tx |-> last.arg.tx, confirmed |-> TRUE]

\* The Balance b holds no output coin of tx in the unspent or unconfirmed
\* list of the asset the output pays.
HoldsNoOutput(b, tx) ==
    \A i \in 1..Len(tx.outputs) :
        LET sym == ASSETS(tx.outputs[i].assetId)
        IN  Has(b.assets, sym) =>
              /\ Count(Get(b.assets, sym).unspent, <<tx.hash, i - 1>>) = 0
              /\ Count(Get(b.assets, sym).unconfirmed, <<tx.hash, i - 1>>) = 0

\* After the step every output coin of tx is once in the unspent list of its
\* asset and not in its unconfirmed list.
OnceUnspent(tx) ==
    /\ last'.err = "none"
    /\ \A i \in 1..Len(tx.outputs) :
          LET sym == ASSETS(tx.outputs[i].assetId)
          IN  /\ Count(Get(assets', sym).unspent, <<tx.hash, i - 1>>) = 1
              /\ Count(Get(assets', sym).unconfirmed, <<tx.hash, i - 1>>) = 0

\* C12: with confirmed = true a coin of the same txid and index is removed
\* from unconfirmed before the new coin is appended to unspent; so after
\* applyTx(T, false) followed directly by applyTx(T, true) on a Balance that
\* has the asset, each output coin of T is in unspent exactly once and not in
\* unconfirmed.
C12_ConfirmAfterPending ==
    /\ []ConfirmedReceive
    /\ [][ConfirmsPending => OnceUnspent(last.arg.tx)]_vars

\* C12, amended: the same, on a Balance that has the asset and held no output
\* coin of T in unspent or unconfirmed before applyTx(T, false).
C12_ConfirmAfterPendingFresh ==
    /\ []ConfirmedReceive
    /\ [][(ConfirmsPending /\ HoldsNoOutput(last.pre, last.arg.tx))
            => OnceUnspent(last.arg.tx)]_vars

C12_Witness ==
    /\ last.op = "applyTx" /\ last.err = "none" /\ last.arg.confirmed
    /\ applied[<<last.arg.tx.hash, FALSE>>] = 1
    /\ \A i \in 1..Len(last.arg.tx.outputs) :
          LET sym == ASSETS(last.arg.tx.outputs[i].assetId)
              id == <<last.arg.tx.hash, i - 1>>
          IN  /\ Count(Get(last.pre.assets, sym).unconfirmed, id) = 1
              /\ Count(Get(last.pre.assets, sym).unspent, id) = 0
              /\ Count(Get(assets, sym).unconfirmed, id) = 0
              /\ Count(Get(assets, sym).unspent, id) = 1

\* A verifyAssets call is waiting for the answer of some query.
Pending ==
    /\ verify.phase = "running"
    /\ \E i \in 1..Len(verify.queries) :
          \E j \in 1..Len(verify.queries[i]) : verify.queries[i][j].status = "pending"

\* The step ends the verifyAssets call.
Completes == verify.phase = "running" /\ verify'.phase = "idle"

\* No query of the call that has just ended is without an answer.
NonePending ==
    \A i \in 1..Len(last'.queries) :
        \A j \in 1..Len(last'.queries[i]) : last'.queries[i][j].status # "pending"

C14_Termination ==
    /\ (verify.phase = "running") ~> (verify.phase = "idle")
    /\ [][Pending => /\ This' = This
                     /\ (verify'.phase = "idle" => last'.err = "rejected")]_vars

C14_Witness ==
    /\ verify.phase = "idle"
    /\ last.op = "verifyAssets"
    /\ last.err = "rejected"
    /\ \E i, k \in 1..Len(last.queries) :
          /\ \E j \in 1..Len(last.queries[i]) : last.queries[i][j].status = "failed"
          /\ \E j \in 1..Len(last.queries[k]) :
                last.queries[k][j].status \in {"valid", "invalid"}

\* The coins the last call appended to the spent list of the asset sym.
Moved(sym) ==
    SubSeq(Get(assets, sym).spent,
           Len(Get(last.pre.assets, sym).spent) + 1, Len(Get(assets, sym).spent))

\* The inputs of the last applyTx that name an output of the transaction
\* itself.
SelfInputs ==
    {x \in 1..Len(last.arg.tx.inputs) :
        /\ last.arg.tx.inputs[x].prevHash = last.arg.tx.hash
        /\ last.arg.tx.inputs[x].prevIndex < Len(last.arg.tx.outputs)}

\* C15: within one applyTx the inputs are processed before any output is
\* added: the coins moved to spent are coins the unspent lists held before
\* the call, each named by an input, so an input that names an output of the
\* same call spends nothing, and the call may spend coins it does not create.
C15_SpendBeforeReceive ==
    last.op = "applyTx" =>
        /\ \A k \in 1..Len(last.pre.assets) :
              LET sym == last.pre.assets[k].key
                  old == last.pre.assets[k].val
                  moved == Moved(sym)
              IN  /\ SubSeq(Get(assets, sym).spent, 1, Len(old.spent)) = old.spent
                  /\ \A x \in 1..Len(moved) :
                        /\ Count(moved, CoinId(moved[x]))
                              <= Count(old.unspent, CoinId(moved[x]))
                        /\ \E y \in 1..Len(last.arg.tx.inputs) :
                              CoinId(moved[x]) = <<last.arg.tx.inputs[y].prevHash,
                                                   last.arg.tx.inputs[y].prevIndex>>
        /\ last.err = "none" =>
              \A i \in 1..Len(last.arg.tx.outputs) :
                  LET sym == ASSETS(last.arg.tx.outputs[i].assetId)
                      id == <<last.arg.tx.hash, i - 1>>
                      old == Get(last.pre.assets, sym)
                      new == Get(assets, sym)
                  IN  IF last.arg.confirmed
                      THEN Count(new.unspent, id)
                             = Count(old.unspent, id) - Count(Moved(sym), id) + 1
                      ELSE Count(new.unconfirmed, id) = Count(old.unconfirmed, id) + 1

C15_Witness ==
    /\ last.op = "applyTx"
    /\ last.err = "none"
    /\ last.arg.confirmed
    /\ SelfInputs # {}
    /\ \A k \in 1..Len(assets) : Count(assets[k].val.spent, <<last.arg.tx.hash, 0>>) = 0
    /\ \E k \in 1..Len(assets) : Count(assets[k].val.unspent, <<last.arg.tx.hash, 0>>) = 1
    /\ \E k \in 1..Len(last.pre.assets) : Moved(last.pre.assets[k].key) # <<>>

\* C16: no coin identity is more than once in the unspent list of one asset,
\* in the states reached by applyTx, confirm and verifyAssets with every
\* transaction applied at most once per value of confirmed.
C16_NoDuplicateUnspent ==
    (OncePerFlag /\ loaded = {}) =>
        \A k \in 1..Len(assets) :
            \A x \in 1..Len(assets[k].val.unspent) :
                Count(assets[k].val.unspent, CoinId(assets[k].val.unspent[x])) = 1

\* C17: applyTx is all-or-nothing: when the call ends with an error, the
\* Balance after the call equals the Balance before it.
C17_AllOrNothing ==
    (last.op = "applyTx" /\ last.err # "none") => This = last.pre

\* The last call is an applyTx, a confirm or a verifyAssets that resolved.
LaterCall ==
    \/ last.op \in {"applyTx", "confirm"}
    \/ last.op = "verifyAssets" /\ last.err = "none"

\* C18: a coin that is in the spent list of an asset stays in that list
\* after any later applyTx, confirm or successful verifyAssets.
C18_SpentStays ==
    LaterCall =>
        \A k \in 1..Len(last.pre.assets) :
            LET old == last.pre.assets[k].val.spent
                new == Get(assets, last.pre.assets[k].key).spent
            IN  \A x \in 1..Len(old) :
                    Count(new, CoinId(old[x])) >= Count(old, CoinId(old[x]))

\* C18, amended: applyTx and confirm keep the spent list of every asset and
\* only append to it; a successful verifyAssets replaces it with coins of
\* the old unspent list and carries no coin of the old spent list over.
C18_SpentKeptByApplyConfirm ==
    /\ last.op \in {"applyTx", "confirm"} =>
          \A k \in 1..Len(last.pre.assets) :
              LET old == last.pre.assets[k].val.spent
                  new == Get(assets, last.pre.assets[k].key).spent
              IN  Len(old) <= Len(new) /\ SubSeq(new, 1, Len(old)) = old
    /\ (last.op = "verifyAssets" /\ last.err = "none") =>
          \A k \in 1..Len(last.pre.assets) :
              LET old == last.pre.assets[k].val
                  new == Get(assets, last.pre.assets[k].key).spent
              IN  \A x \in 1..Len(new) :
                      Count(new, CoinId(new[x])) <= Count(old.unspent, CoinId(new[x]))

C18_Witness ==
    /\ last.op = "verifyAssets"
    /\ last.err = "none"
    /\ \E k \in 1..Len(last.pre.assets) :
          LET old == last.pre.assets[k].val.spent
              new == Get(assets, last.pre.assets[k].key)
          IN  /\ old # <<>>
              /\ new.spent # <<>>
              /\ \A x \in 1..Len(old) :
                    /\ Count(new.spent, CoinId(old[x])) = 0
                    /\ Count(new.unspent, CoinId(old[x])) = 0

\* The coin identity id is in one of the three lists of the AssetBalance.
InSomeList(assetBalance, id) ==
    \/ Count(assetBalance.unspent, id) > 0
    \/ Count(assetBalance.spent, id) > 0
    \/ Count(assetBalance.unconfirmed, id) > 0

\* C19: what applyTx and confirm did while verifyAssets was waiting is not
\* lost when verifyAssets completes: every coin they placed in a list of an
\* asset is in one of that asset's lists after the replacement.
C19_NoLostUpdate ==
    [][(verify.phase = "running" /\ verify'.phase = "idle" /\ last'.err = "none")
         => \A pl \in verify.placed : InSomeList(Get(assets', pl[1]), pl[2])]_vars

\* C20: the verdict of each query is applied to the coin that was queried:
\* a coin is in the unspent list of a replacement only if its own query
\* reported it valid, and in its spent list only if its own query reported
\* it invalid.
C20_OwnVerdict ==
    (last.op = "verifyAssets" /\ last.err = "none") =>
        \A i \in 1..Len(last.results) :
            LET new == last.results[i][1]
                qs == last.queries[i]
            IN  /\ \A x \in 1..Len(new.unspent) :
                      \E j \in 1..Len(qs) :
                          /\ CoinId(qs[j].coin) = CoinId(new.unspent[x])
                          /\ qs[j].status = "valid"
                /\ \A x \in 1..Len(new.spent) :
                      \E j \in 1..Len(qs) :
                          /\ CoinId(qs[j].coin) = CoinId(new.spent[x])
                          /\ qs[j].status = "invalid"

====
